---------------------------- MODULE Spec2Model ----------------------------
(***************************************************************************)
(* Model of 1TEAM_XMAS_HACK.py: TOPSIS ranking of payment providers and    *)
(* the sequential routing of a batch of payments over the ranked           *)
(* providers (optimize_routes), with the shared daily-sum tracker and the  *)
(* final shortfall penalties.                                              *)
(*                                                                         *)
(* Numbers.  Money is an integer number of units.  A float that is missing *)
(* (the left merge of a currency that has no rate) is NaN.  Rates of the   *)
(* provider table are integers over a fixed denominator:                   *)
(*   COMMISSION  in hundredths (1 is 0.01),                                *)
(*   CONVERSION  in halves (0 is 0.0, 1 is 0.5, 2 is 1.0).                 *)
(* Commission, Profit and both penalties are kept in hundredths of a unit  *)
(* (9900 is 99.00), so that amount * 0.01 stays an integer.                *)
(***************************************************************************)
EXTENDS Integers, Sequences, FiniteSets, TLC

(* ------------------------------ bounds -------------------------------- *)
MaxRecords == 2       \* rows of the provider table
MaxPayments == 2      \* rows of the payment table

(* --------------------------- representation --------------------------- *)
NaN == -1             \* the missing float of a left merge without a match
Hundredths == 100     \* money results are kept in 1 / Hundredths of a unit
PenaltyRate == 1      \* 0.01, in hundredths
ConversionOne == 2    \* CONVERSION = 1.0 in halves

IDs == {1, 2}
Times == {1, 2}
Amounts == {50, 100}

\* ex_rates.csv: destination -> rate.  "XXX" has no row.
currency_rates == [USD |-> 1, EUR |-> 2]

IsNaN(x) == x = NaN

\* float arithmetic and comparisons: NaN propagates, every comparison with
\* NaN is False
fmul(a, b) == IF IsNaN(a) \/ IsNaN(b) THEN NaN ELSE a * b
fadd(a, b) == IF IsNaN(a) \/ IsNaN(b) THEN NaN ELSE a + b
fsub(a, b) == IF IsNaN(a) \/ IsNaN(b) THEN NaN ELSE a - b
flt(a, b) == ~IsNaN(a) /\ ~IsNaN(b) /\ a < b
fgt(a, b) == ~IsNaN(a) /\ ~IsNaN(b) /\ a > b
fge(a, b) == ~IsNaN(a) /\ ~IsNaN(b) /\ a >= b

\* the rate column a left merge on 'destination' gives to a row of currency c
merge_rate(c) == IF c \in DOMAIN currency_rates THEN currency_rates[c] ELSE NaN

(* ------------------------------ sequences ----------------------------- *)
RECURSIVE SumSeq(_)
SumSeq(s) == IF s = <<>> THEN 0 ELSE Head(s) + SumSeq(Tail(s))

RECURSIVE ProdSeq(_)
ProdSeq(s) == IF s = <<>> THEN 1 ELSE Head(s) * ProdSeq(Tail(s))

SetMax(S) == CHOOSE x \in S : \A y \in S : y <= x
SetMin(S) == CHOOSE x \in S : \A y \in S : x <= y

\* str(x) joined with '-'
RECURSIVE join(_)
join(route) ==
    IF route = <<>> THEN ""
    ELSE IF Len(route) = 1 THEN Head(route)
         ELSE Head(route) \o "-" \o join(Tail(route))

(* ------------------------------- TOPSIS ------------------------------- *)
criterions == <<"CONVERSION", "COMMISSION", "AVG_TIME">>
weights == <<2, 6, 2>>                    \* tenths: 0.2, 0.6, 0.2
marks_commission_max == <<"max", "max", "min">>
marks == <<"max", "min", "min">>

\* Entry [num, den2] of the weighted matrix stands for the float
\* num / (10 * sqrt(den2)): the criterion value times its weight over the
\* Euclidean norm of its column.  den2 = 0 is the division 0/0, a NaN.
normalize_matrix(P, crits, w) ==
    [r \in 1..Len(P) |->
        [c \in 1..Len(crits) |->
            [num  |-> P[r][crits[c]] * w[c],
             den2 |-> SumSeq([k \in 1..Len(P) |->
                                P[k][crits[c]] * P[k][crits[c]]])]]]

\* the ideal and the anti-ideal numerator of every column (the column shares
\* one denominator); of a matrix without rows max() raises
calculate_solutions(matrix, criterion_types) ==
    LET col(c) == {matrix[r][c].num : r \in 1..Len(matrix)}
    IN [good |-> [c \in 1..Len(criterion_types) |->
                    IF criterion_types[c] = "max" THEN SetMax(col(c))
                    ELSE SetMin(col(c))],
        bad  |-> [c \in 1..Len(criterion_types) |->
                    IF criterion_types[c] = "max" THEN SetMin(col(c))
                    ELSE SetMax(col(c))]]

\* coef of a row as the pair of squared distances over the common denominator
\* 100 * (product of the den2 of the columns):
\*   coef = sqrt(bad2) / (sqrt(good2) + sqrt(bad2)),
\* NaN when a column is 0/0 or both distances are 0.
calculate_distances(matrix, good, bad) ==
    LET nc == Len(good)
        den(r, c) == matrix[r][c].den2
        others(r, c) == ProdSeq([d \in 1..nc |-> IF d = c THEN 1 ELSE den(r, d)])
        sq(x) == x * x
        dist2(r, to) == SumSeq([c \in 1..nc |->
                            sq(matrix[r][c].num - to[c]) * others(r, c)])
        colnan(r) == \E c \in 1..nc : den(r, c) = 0
    IN [r \in 1..Len(matrix) |->
          [good2 |-> dist2(r, good),
           bad2  |-> dist2(r, bad),
           nan   |-> colnan(r) \/ (dist2(r, good) = 0 /\ dist2(r, bad) = 0)]]

\* a/b < c/d for a, c >= 0 and b, d > 0, without forming the products
RECURSIVE FracLess(_, _, _, _)
FracLess(a, b, c, d) ==
    LET qa == a \div b
        qc == c \div d
        ra == a % b
        rc == c % d
    IN IF qa # qc THEN qa < qc
       ELSE IF rc = 0 THEN FALSE
       ELSE IF ra = 0 THEN TRUE
       ELSE FracLess(d, rc, b, ra)

\* coef s < coef t, for two coefs that are not NaN
ScoreLess(s, t) ==
    IF s.good2 = 0 THEN FALSE
    ELSE IF t.good2 = 0 THEN TRUE
    ELSE FracLess(s.bad2, s.good2, t.bad2, t.good2)

Perms(n) == {p \in [1..n -> 1..n] : \A a, b \in 1..n : a # b => p[a] # p[b]}

sort_values_any_order(P) ==
    {[k \in 1..Len(P) |-> P[p[k]]] :
        p \in {q \in [1..Len(P) -> 1..Len(P)] :
                 \A a, b \in 1..Len(P) : a # b => q[a] # q[b]}}

\* sort_values(by='topsis_score', ascending=False): the orders of the rows in
\* which no row precedes a row of a greater score; rows of equal score come
\* in either order, rows of a NaN score keep their order
sort_values(P) ==
    LET n == Len(P)
    IN IF \E r \in 1..n : P[r].topsis_score.nan
       THEN {P}
       ELSE {[k \in 1..n |-> P[p[k]]] :
                p \in {q \in Perms(n) :
                         \A k \in 1..(n - 1) :
                            ~ScoreLess(P[q[k]].topsis_score,
                                       P[q[k + 1]].topsis_score)}}

\* providers['topsis_score'] = coef, then the sort
rank_providers(P, coef) ==
    sort_values([r \in 1..Len(P) |->
                    [f \in DOMAIN P[r] \cup {"topsis_score"} |->
                        IF f = "topsis_score" THEN coef[r] ELSE P[r][f]]])

topsis(P, crits, w, criterion_types) ==
    LET provider_matrix == normalize_matrix(P, crits, w)
        sol == calculate_solutions(provider_matrix, criterion_types)
        score == calculate_distances(provider_matrix, sol.good, sol.bad)
    IN rank_providers(P, score)

(* ------------------------------- inputs ------------------------------- *)
\* the limits and rates a provider record can carry
Profiles ==
    { [MIN_SUM |-> 0, MAX_SUM |-> 1000, LIMIT_MIN |-> 500, LIMIT_MAX |-> 1000,
       COMMISSION |-> 1, CONVERSION |-> 2, AVG_TIME |-> 1],
      [MIN_SUM |-> 0, MAX_SUM |-> 1000, LIMIT_MIN |-> 0, LIMIT_MAX |-> 1000,
       COMMISSION |-> 5, CONVERSION |-> 2, AVG_TIME |-> 1],
      [MIN_SUM |-> 0, MAX_SUM |-> 1000, LIMIT_MIN |-> 80, LIMIT_MAX |-> 100,
       COMMISSION |-> 5, CONVERSION |-> 1, AVG_TIME |-> 2],
      [MIN_SUM |-> 60, MAX_SUM |-> 100, LIMIT_MIN |-> 500, LIMIT_MAX |-> 1000,
       COMMISSION |-> 1, CONVERSION |-> 0, AVG_TIME |-> 2] }

ProviderRow(id, cur, t, prof) ==
    [ID |-> id, CURRENCY |-> cur, TIME |-> t,
     MIN_SUM |-> prof.MIN_SUM, MAX_SUM |-> prof.MAX_SUM,
     LIMIT_MIN |-> prof.LIMIT_MIN, LIMIT_MAX |-> prof.LIMIT_MAX,
     COMMISSION |-> prof.COMMISSION, CONVERSION |-> prof.CONVERSION,
     AVG_TIME |-> prof.AVG_TIME]

\* rows of providers_1.csv: every profile in USD (provider 2 only at time 1),
\* one provider in EUR and one in a currency without a rate
ProviderRows ==
    {row \in {ProviderRow(id, "USD", t, prof) :
                 id \in IDs, t \in Times, prof \in Profiles} :
        row.ID = 1 \/ row.TIME = 1}
    \cup {ProviderRow(2, "EUR", 1, prof) :
            prof \in {q \in Profiles : q.COMMISSION = 5 /\ q.CONVERSION = 2}}
    \cup {ProviderRow(1, "XXX", 1, prof) :
            prof \in {q \in Profiles : q.COMMISSION = 1 /\ q.CONVERSION = 2}}

\* rows of payments_1.csv
PaymentRows ==
    {[amount |-> a, cur |-> "USD", eventTimeRes |-> t] : a \in Amounts, t \in Times}
    \cup {[amount |-> SetMin(Amounts), cur |-> c, eventTimeRes |-> SetMax(Times)] :
            c \in {"EUR", "XXX"}}

SeqsUpTo(S, n) == UNION {[1..m -> S] : m \in 1..n}

\* a provider has one currency: the records of an ID share it
ProviderTables ==
    {P \in SeqsUpTo(ProviderRows, MaxRecords) :
        \A r, q \in 1..Len(P) : P[r].ID = P[q].ID => P[r].CURRENCY = P[q].CURRENCY}

(* -------------------------------- state ------------------------------- *)
VARIABLES
    providers,              \* the provider table
    payments,               \* the payment table with its result columns
    provider_daily_sums,    \* ID -> amount committed in the batch
    pc,                     \* position in optimize_routes
    i,                      \* index of the payment being processed
    amount,                 \* its converted amount
    route,                  \* its list of str(provider_id)
    total_commission,
    total_processing_time,
    is_first,               \* no provider has committed this payment yet
    sorted_providers,       \* ranked eligible providers of the payment
    k,                      \* index of the next provider of sorted_providers
    limit_penalty_used,
    limit_penalty_all,
    draws                   \* outcomes of np.random.choice so far, in order

vars == <<providers, payments, provider_daily_sums, pc, i, amount, route,
          total_commission, total_processing_time, is_first,
          sorted_providers, k, limit_penalty_used, limit_penalty_all, draws>>

NoProvider == 0      \* payments['Successful provider'] = 0

Init ==
    /\ providers \in ProviderTables
    /\ payments \in SeqsUpTo(PaymentRows, MaxPayments)
    /\ provider_daily_sums = <<>>
    /\ pc = "start"
    /\ i = 1
    /\ amount = 0
    /\ route = <<>>
    /\ total_commission = 0
    /\ total_processing_time = 0
    /\ is_first = TRUE
    /\ sorted_providers = <<>>
    /\ k = 1
    /\ limit_penalty_used = 0
    /\ limit_penalty_all = 0
    /\ draws = <<>>

routing_unchanged ==
    UNCHANGED <<amount, route, total_commission, total_processing_time,
                is_first, sorted_providers, k, draws>>

\* groupby(['ID'])[column].transform('first'): the value of the first row of
\* the same ID
transform_first(P, r, column) ==
    P[SetMin({q \in 1..Len(P) : P[q].ID = P[r].ID})][column]

\* lines 89-110: result columns, daily limits of the first record per ID,
\* the merge of the rates, the conversion of the money columns, the tracker
Prepare ==
    /\ pc = "start"
    /\ payments' =
         [r \in 1..Len(payments) |->
            [amount |-> payments[r].amount, cur |-> payments[r].cur,
             eventTimeRes |-> payments[r].eventTimeRes,
             flow |-> "", Profit |-> 0, Processing_Time |-> 0,
             Successful_provider |-> NoProvider,
             rate |-> merge_rate(payments[r].cur)]]
    /\ providers' =
         [r \in 1..Len(providers) |->
            LET row == providers[r]
                rate == merge_rate(row.CURRENCY)
            IN [ID |-> row.ID, CURRENCY |-> row.CURRENCY, TIME |-> row.TIME,
                COMMISSION |-> row.COMMISSION, CONVERSION |-> row.CONVERSION,
                AVG_TIME |-> row.AVG_TIME, rate |-> rate,
                MIN_SUM |-> fmul(row.MIN_SUM, rate),
                MAX_SUM |-> fmul(row.MAX_SUM, rate),
                LIMIT_MIN |-> fmul(transform_first(providers, r, "LIMIT_MIN"), rate),
                LIMIT_MAX |-> fmul(transform_first(providers, r, "LIMIT_MAX"), rate)]]
    /\ provider_daily_sums' =
         [id \in {providers[r].ID : r \in 1..Len(providers)} |-> 0]
    /\ pc' = "payment"
    /\ UNCHANGED <<i, limit_penalty_used, limit_penalty_all>>
    /\ routing_unchanged

RECURSIVE SortedSeq(_)
SortedSeq(S) ==
    IF S = {} THEN <<>>
    ELSE <<SetMin(S)>> \o SortedSeq(S \ {SetMin(S)})

\* every record of the currency effective at the payment time, in table order
filtered_providers_all_records(P, payment_time, currency) ==
    SelectSeq(P, LAMBDA row : row.TIME <= payment_time /\ row.CURRENCY = currency)

\* the latest record of every ID over all times, dropped when it is later
\* than the payment
filtered_providers_latest_first(P, payment_time, currency) ==
    LET keep == {r \in 1..Len(P) : P[r].CURRENCY = currency}
        idxmax(id) ==
            LET rows == {r \in keep : P[r].ID = id}
                latest == CHOOSE t \in {P[r].TIME : r \in rows} :
                             \A r \in rows : P[r].TIME <= t
            IN CHOOSE r \in rows :
                  P[r].TIME = latest /\ \A q \in rows : P[q].TIME = latest => r <= q
        RECURSIVE pick(_)
        pick(S) ==
            IF S = {} THEN <<>>
            ELSE LET id == CHOOSE x \in S : \A y \in S : x <= y
                 IN IF P[idxmax(id)].TIME <= payment_time
                    THEN <<P[idxmax(id)]>> \o pick(S \ {id})
                    ELSE pick(S \ {id})
    IN pick({P[r].ID : r \in keep})

\* lines 126-127: the records of the payment's currency that are effective at
\* the payment time, and of those the latest record of every ID (the first
\* one when several share the latest TIME), in the order of the IDs
filtered_providers(P, payment_time, currency) ==
    LET keep == {r \in 1..Len(P) :
                    P[r].TIME <= payment_time /\ P[r].CURRENCY = currency}
        ids == SortedSeq({P[r].ID : r \in keep})
        idxmax(id) ==
            LET rows == {r \in keep : P[r].ID = id}
                latest == SetMax({P[r].TIME : r \in rows})
            IN SetMin({r \in rows : P[r].TIME = latest})
    IN [n \in 1..Len(ids) |-> P[idxmax(ids[n])]]

\* lines 128-132: the ranking, filtered by the payment time and sorted again
ranked_lists(P, payment_time, currency) ==
    UNION {sort_values(SelectSeq(ranked, LAMBDA row : row.TIME <= payment_time)) :
             ranked \in topsis(filtered_providers(P, payment_time, currency),
                               criterions, weights, marks)}

\* lines 113-132 for a payment with an eligible provider
BeginPayment ==
    /\ pc = "payment"
    /\ i <= Len(payments)
    /\ LET payment == payments[i]
       IN /\ filtered_providers(providers, payment.eventTimeRes, payment.cur) # <<>>
          /\ amount' = fmul(payment.amount, payment.rate)
          /\ sorted_providers' \in
                ranked_lists(providers, payment.eventTimeRes, payment.cur)
    /\ route' = <<>>
    /\ total_commission' = 0
    /\ total_processing_time' = 0
    /\ is_first' = TRUE
    /\ k' = 1
    /\ pc' = "route"
    /\ UNCHANGED <<providers, payments, provider_daily_sums, i,
                   limit_penalty_used, limit_penalty_all, draws>>

\* lines 113-128 for a payment without an eligible provider: the matrix has
\* no rows and matrix[:, i].max() in calculate_solutions raises ValueError,
\* which nothing catches
RaiseNoProvider ==
    /\ pc = "payment"
    /\ i <= Len(payments)
    /\ LET payment == payments[i]
       IN /\ filtered_providers(providers, payment.eventTimeRes, payment.cur) = <<>>
          /\ amount' = fmul(payment.amount, payment.rate)
    /\ route' = <<>>
    /\ total_commission' = 0
    /\ total_processing_time' = 0
    /\ is_first' = TRUE
    /\ pc' = "raised"
    /\ UNCHANGED <<providers, payments, provider_daily_sums, i,
                   sorted_providers, k, limit_penalty_used, limit_penalty_all,
                   draws>>

(* ------------------------- routing of a payment ----------------------- *)
at_provider == pc = "route" /\ k <= Len(sorted_providers)

\* line 139
out_of_bounds(amt, provider) ==
    flt(amt, provider.MIN_SUM) \/ fgt(amt, provider.MAX_SUM)

limit_reached_strict(sums, provider) ==
    fgt(sums[provider.ID], provider.LIMIT_MAX)

\* line 141
limit_reached(sums, provider) ==
    fge(sums[provider.ID], provider.LIMIT_MAX)

\* lines 145-147: np.random.choice([True, False], p=[c, 1 - c]) can give an
\* outcome whose probability is not 0
choice_outcomes(conversion) ==
    {b \in BOOLEAN : IF b THEN conversion > 0 ELSE conversion < ConversionOne}

\* line 154
available_limit(sums, provider) == fsub(provider.LIMIT_MAX, sums[provider.ID])

limit_overflow_unchecked(sums, amt, provider) == FALSE

\* line 156
limit_overflow(sums, amt, provider) == flt(available_limit(sums, provider), amt)

failed_time_always(first, time, provider) == time + provider.AVG_TIME

\* lines 149 and 157: the time of an attempt counts until a provider commits
failed_time(first, time, provider) ==
    IF first THEN time + provider.AVG_TIME ELSE time

committed_sums_all(sums, amt, provider) ==
    [id \in DOMAIN sums |-> fadd(sums[id], amt)]

\* line 164
committed_sums(sums, amt, provider) ==
    [sums EXCEPT ![provider.ID] = fadd(@, amt)]

is_first_kept == TRUE

\* line 167
is_first_after_commit == FALSE

\* lines 139-140: the amount is outside the provider's bounds
SkipAmount ==
    /\ at_provider
    /\ out_of_bounds(amount, sorted_providers[k])
    /\ k' = k + 1
    /\ UNCHANGED <<providers, payments, provider_daily_sums, pc, i, amount,
                   route, total_commission, total_processing_time, is_first,
                   sorted_providers, limit_penalty_used, limit_penalty_all,
                   draws>>

\* lines 141-142: the provider has reached its daily limit
SkipLimit ==
    /\ at_provider
    /\ ~out_of_bounds(amount, sorted_providers[k])
    /\ limit_reached(provider_daily_sums, sorted_providers[k])
    /\ k' = k + 1
    /\ UNCHANGED <<providers, payments, provider_daily_sums, pc, i, amount,
                   route, total_commission, total_processing_time, is_first,
                   sorted_providers, limit_penalty_used, limit_penalty_all,
                   draws>>

attempted(provider) ==
    /\ ~out_of_bounds(amount, provider)
    /\ ~limit_reached(provider_daily_sums, provider)

\* lines 145-151: the conversion draw fails
ConversionFail ==
    /\ at_provider
    /\ LET provider == sorted_providers[k]
       IN /\ attempted(provider)
          /\ FALSE \in choice_outcomes(provider.CONVERSION)
          /\ total_processing_time' =
                failed_time(is_first, total_processing_time, provider)
          /\ route' = Append(route, ToString(provider.ID))
    /\ draws' = Append(draws, FALSE)
    /\ k' = k + 1
    /\ UNCHANGED <<providers, payments, provider_daily_sums, pc, i, amount,
                   total_commission, is_first, sorted_providers,
                   limit_penalty_used, limit_penalty_all>>

\* lines 145-158: the draw succeeds and the amount overflows the daily limit
LimitOverflow ==
    /\ at_provider
    /\ LET provider == sorted_providers[k]
       IN /\ attempted(provider)
          /\ TRUE \in choice_outcomes(provider.CONVERSION)
          /\ limit_overflow(provider_daily_sums, amount, provider)
          /\ total_processing_time' =
                failed_time(is_first, total_processing_time, provider)
    /\ draws' = Append(draws, TRUE)
    /\ k' = k + 1
    /\ UNCHANGED <<providers, payments, provider_daily_sums, pc, i, amount,
                   route, total_commission, is_first, sorted_providers,
                   limit_penalty_used, limit_penalty_all>>

\* lines 145-167: the draw succeeds and the provider has the capacity; the
\* first such provider of the payment commits
Accept ==
    /\ at_provider
    /\ LET provider == sorted_providers[k]
           commission == fmul(amount, provider.COMMISSION)
       IN /\ attempted(provider)
          /\ TRUE \in choice_outcomes(provider.CONVERSION)
          /\ ~limit_overflow(provider_daily_sums, amount, provider)
          /\ route' = Append(route, ToString(provider.ID))
          /\ IF is_first
             THEN /\ payments' =
                        [payments EXCEPT ![i].Successful_provider = provider.ID]
                  /\ provider_daily_sums' =
                        committed_sums(provider_daily_sums, amount, provider)
                  /\ total_commission' = fadd(total_commission, commission)
                  /\ total_processing_time' =
                        total_processing_time + provider.AVG_TIME
                  /\ is_first' = is_first_after_commit
             ELSE UNCHANGED <<payments, provider_daily_sums, total_commission,
                              total_processing_time, is_first>>
    /\ draws' = Append(draws, TRUE)
    /\ k' = k + 1
    /\ UNCHANGED <<providers, pc, i, amount, sorted_providers,
                   limit_penalty_used, limit_penalty_all>>

\* line 172, in hundredths
profit(amt, commission) == fsub(fmul(amt, Hundredths), commission)

profit_recorded_on_commit(flow) == flow # "" /\ ~is_first

\* lines 170-172: Profit is written when the flow is not empty
profit_recorded(flow) == flow # ""

\* lines 169-173: the ranked list is exhausted
FinishPayment ==
    /\ pc = "route"
    /\ k > Len(sorted_providers)
    /\ LET flow == join(route)
       IN payments' =
            [payments EXCEPT
               ![i].flow = flow,
               ![i].Profit = IF profit_recorded(flow)
                             THEN profit(amount, total_commission) ELSE @,
               ![i].Processing_Time = total_processing_time]
    /\ i' = i + 1
    /\ pc' = "payment"
    /\ UNCHANGED <<providers, provider_daily_sums, limit_penalty_used,
                   limit_penalty_all>>
    /\ routing_unchanged

(* ------------------------------ penalties ----------------------------- *)
\* the sum of the values of a function of finite domain
RECURSIVE SumFun(_)
SumFun(f) ==
    IF DOMAIN f = {} THEN 0
    ELSE LET x == CHOOSE y \in DOMAIN f : TRUE
         IN f[x] + SumFun([y \in DOMAIN f \ {x} |-> f[y]])

\* line 179: LIMIT_MIN of the first record of the provider
limit_min(P, provider_id) ==
    P[SetMin({r \in 1..Len(P) : P[r].ID = provider_id})].LIMIT_MIN

\* lines 181 and 183, in hundredths
shortfall_penalty(lim, daily_sum) == PenaltyRate * fsub(lim, daily_sum)

penalty_unused_only(P, sums) ==
    SumFun([id \in {d \in DOMAIN sums :
                        ~fgt(sums[d], 0) /\ fgt(limit_min(P, d), sums[d])} |->
                shortfall_penalty(limit_min(P, id), sums[id])])

\* lines 180-181
penalty_all(P, sums) ==
    SumFun([id \in {d \in DOMAIN sums : fgt(limit_min(P, d), sums[d])} |->
                shortfall_penalty(limit_min(P, id), sums[id])])

penalty_used_unguarded(P, sums) ==
    SumFun([id \in {d \in DOMAIN sums : fgt(limit_min(P, d), sums[d])} |->
                shortfall_penalty(limit_min(P, id), sums[id])])

\* lines 182-184
penalty_used(P, sums) ==
    SumFun([id \in {d \in DOMAIN sums :
                        fgt(sums[d], 0) /\ fgt(limit_min(P, d), sums[d])} |->
                shortfall_penalty(limit_min(P, id), sums[id])])

\* lines 175-185: every payment is processed
Penalties ==
    /\ pc = "payment"
    /\ i > Len(payments)
    /\ limit_penalty_used' = penalty_used(providers, provider_daily_sums)
    /\ limit_penalty_all' = penalty_all(providers, provider_daily_sums)
    /\ pc' = "done"
    /\ UNCHANGED <<providers, payments, provider_daily_sums, i>>
    /\ routing_unchanged

Next ==
    \/ Prepare
    \/ BeginPayment
    \/ RaiseNoProvider
    \/ SkipAmount
    \/ SkipLimit
    \/ ConversionFail
    \/ LimitOverflow
    \/ Accept
    \/ FinishPayment
    \/ Penalties

Spec == Init /\ [][Next]_vars

(* ------------------------------- claims ------------------------------- *)
\* the payment being routed, and what the tracker and the payment table say
\* about its commit
routing == pc = "route"
successful(j) == payments[j].Successful_provider

\* C1: within one payment at most one provider commits.  While the payment
\* is routed, the tracker and the 'Successful provider' field change only in
\* a step taken before any commit; that step adds exactly the converted
\* amount to the entry of one provider, writes that provider into the field
\* and marks the payment committed; once committed, the payment stays
\* committed and neither the tracker nor the field changes again.
C1_CommitStep ==
    routing =>
      /\ ~is_first =>
            /\ ~is_first'
            /\ provider_daily_sums' = provider_daily_sums
            /\ payments'[i].Successful_provider = successful(i)
      /\ (is_first /\ (provider_daily_sums' # provider_daily_sums
                       \/ payments'[i].Successful_provider # successful(i))) =>
            /\ ~is_first'
            /\ successful(i) = NoProvider
            /\ \E id \in DOMAIN provider_daily_sums :
                  /\ provider_daily_sums' =
                        [provider_daily_sums EXCEPT ![id] = fadd(@, amount)]
                  /\ payments'[i].Successful_provider = id
C1_AtMostOneCommit == [][C1_CommitStep]_vars

\* C1 witness: a second provider was accepted after the first one committed
C1_Witness ==
    /\ routing
    /\ ~is_first
    /\ Len(route) = 2
    /\ k = 3
    /\ successful(i) = sorted_providers[1].ID
    /\ sorted_providers[2].CONVERSION = ConversionOne
    /\ provider_daily_sums[sorted_providers[2].ID] = 0

\* the daily max of a provider after the conversion (every record of the ID
\* carries it)
daily_max(id) ==
    providers[SetMin({r \in 1..Len(providers) : providers[r].ID = id})].LIMIT_MAX

\* C2: for every provider whose daily max is a number, the accumulated daily
\* amount is a number and is at most the daily max.
C2_NeverAboveDailyMax ==
    \A id \in DOMAIN provider_daily_sums :
        ~IsNaN(daily_max(id)) =>
            /\ ~IsNaN(provider_daily_sums[id])
            /\ provider_daily_sums[id] <= daily_max(id)

\* C2 witness: a drawn provider with a part of its daily max used was refused
\* the commit that would have passed the daily max (its time counted, no
\* entry in the route)
C2_Witness ==
    /\ routing
    /\ k = 2
    /\ is_first
    /\ route = <<>>
    /\ total_processing_time > 0
    /\ LET id == sorted_providers[1].ID
       IN /\ provider_daily_sums[id] > 0
          /\ provider_daily_sums[id] < daily_max(id)
          /\ provider_daily_sums[id] + amount > daily_max(id)

\* C3: an entry of the tracker changes only in the step that commits the
\* payment to that provider (the provider at hand, attempted, drawn, before
\* any commit of the payment), and never decreases.
C3_TrackerStep ==
    \A id \in DOMAIN provider_daily_sums :
        provider_daily_sums'[id] # provider_daily_sums[id] =>
            /\ routing
            /\ k <= Len(sorted_providers)
            /\ sorted_providers[k].ID = id
            /\ attempted(sorted_providers[k])
            /\ is_first
            /\ ~is_first'
            /\ payments'[i].Successful_provider = id
            /\ route' = Append(route, ToString(id))
            /\ ~flt(provider_daily_sums'[id], provider_daily_sums[id])
C3_TrackerOnlyAtCommit == [][C3_TrackerStep]_vars

\* C3 witness: after a commit of an earlier payment, a payment went through
\* a skip, a failed draw or a refused commit with the tracker as it was
C3_Witness ==
    /\ routing
    /\ i = 2
    /\ k > Len(sorted_providers)
    /\ is_first
    /\ successful(1) # NoProvider
    /\ provider_daily_sums[successful(1)] = payments[1].amount * payments[1].rate

\* payment j has been through FinishPayment
processed(j) == pc # "start" /\ j < i

converted_amount(j) == fmul(payments[j].amount, payments[j].rate)

\* the records payment j can be routed to
eligible(j) ==
    filtered_providers(providers, payments[j].eventTimeRes, payments[j].cur)

\* the commission rate (in hundredths) of the provider that committed
\* payment j, 0 when none did
committed_rate(j) ==
    IF successful(j) = NoProvider THEN 0
    ELSE LET rows == eligible(j)
         IN rows[CHOOSE r \in 1..Len(rows) : rows[r].ID = successful(j)].COMMISSION

\* C4 (as claimed): a processed payment that no provider committed has
\* Profit 0 and no successful provider.
C4_NoCommitNoProfit ==
    \A j \in 1..Len(payments) :
        (processed(j) /\ successful(j) = NoProvider) => payments[j].Profit = 0

\* C5: a processed payment has Profit = converted amount - commission when
\* its flow is not empty and 0 when it is empty, the commission being the
\* amount times the commission rate of the committing provider (0 without a
\* commit); Profit in hundredths.
C5_ProfitByFlow ==
    \A j \in 1..Len(payments) :
        processed(j) =>
            payments[j].Profit =
                IF payments[j].flow # ""
                THEN fsub(fmul(converted_amount(j), Hundredths),
                          fmul(converted_amount(j), committed_rate(j)))
                ELSE 0

\* C5 witness: a processed payment with attempts and no commit carries its
\* whole amount as Profit
C5_Witness ==
    \E j \in 1..Len(payments) :
        /\ processed(j)
        /\ payments[j].flow # ""
        /\ successful(j) = NoProvider
        /\ payments[j].Profit = converted_amount(j) * Hundredths
        /\ payments[j].Profit > 0

\* the scenario of C6 on the first payment: two providers A and B, both
\* eligible, both with conversion 1.0 and daily max 1000, commission 0.01
\* and 0.05, and an amount of 100; pair <<a, b>> gives their rows
C6_Pairs ==
    IF pc = "start" \/ Len(providers) # 2 THEN {}
    ELSE {ab \in (1..2) \X (1..2) :
            /\ providers[ab[1]].ID # providers[ab[2]].ID
            /\ providers[ab[1]].COMMISSION = 1
            /\ providers[ab[2]].COMMISSION = 5
            /\ converted_amount(1) = 100
            /\ \A r \in 1..2 :
                  /\ providers[r].CONVERSION = ConversionOne
                  /\ providers[r].LIMIT_MAX = 1000
                  /\ providers[r].CURRENCY = payments[1].cur
                  /\ providers[r].TIME <= payments[1].eventTimeRes
                  /\ ~out_of_bounds(converted_amount(1), providers[r])}

\* C6 (as claimed): in the scenario the flow of the payment is "A", its
\* Profit 99 and its successful provider A.
C6_FlowIsFirstOnly ==
    \A ab \in C6_Pairs :
        processed(1) =>
            /\ payments[1].flow = ToString(providers[ab[1]].ID)
            /\ payments[1].Profit = 99 * Hundredths
            /\ successful(1) = providers[ab[1]].ID

\* C6 (amended): in the scenario the flow of the payment is "A-B" (B is
\* attempted and accepted after A has committed), its Profit is 99 and its
\* successful provider is A.
C6_FlowIsBoth ==
    \A ab \in C6_Pairs :
        processed(1) =>
            /\ payments[1].flow =
                  ToString(providers[ab[1]].ID) \o "-" \o ToString(providers[ab[2]].ID)
            /\ payments[1].Profit = 99 * Hundredths
            /\ successful(1) = providers[ab[1]].ID

\* C6 witness: the first payment of the scenario is processed
C6_Witness == C6_Pairs # {} /\ processed(1)

\* C7 (as claimed): a payment without an eligible record does not stop the
\* batch and leaves the tracker as it is.
C7_NoEligibleStep ==
    (/\ pc = "payment"
     /\ i <= Len(payments)
     /\ eligible(i) = <<>>) =>
        /\ pc' # "raised"
        /\ provider_daily_sums' = provider_daily_sums
C7_NoEligibleGoesOn == [][C7_NoEligibleStep]_vars

\* C8 (as claimed): a payment whose currency has no rate is never routed and
\* never commits, and no entry of the tracker takes an undefined amount.
C8_NoRateNoRouting ==
    pc # "start" =>
        /\ \A id \in DOMAIN provider_daily_sums : ~IsNaN(provider_daily_sums[id])
        /\ \A j \in 1..Len(payments) :
              IsNaN(payments[j].rate) =>
                  /\ successful(j) = NoProvider
                  /\ ~(routing /\ i = j)

\* the converted LIMIT_MIN of provider id, carried by its first record
converted_limit_min(id) ==
    providers[SetMin({q \in 1..Len(providers) : providers[q].ID = id})].LIMIT_MIN

\* 0.01 * (limitMin - accumulated) in hundredths where limitMin > accumulated,
\* 0 elsewhere
shortfall_of(id) ==
    IF fgt(converted_limit_min(id), provider_daily_sums[id])
    THEN converted_limit_min(id) - provider_daily_sums[id]
    ELSE 0

\* C9: after the batch penaltyAll is the sum of the shortfall penalties of
\* all providers and penaltyUsed the sum over the providers with
\* accumulated > 0; a single provider with limitMin 500 left at 0 gives
\* penaltyAll 5.0 and penaltyUsed 0.
C9_Penalties ==
    pc = "done" =>
        /\ limit_penalty_all =
              SumFun([id \in DOMAIN provider_daily_sums |-> shortfall_of(id)])
        /\ limit_penalty_used =
              SumFun([id \in DOMAIN provider_daily_sums |->
                         IF fgt(provider_daily_sums[id], 0)
                         THEN shortfall_of(id) ELSE 0])
        /\ \A id \in DOMAIN provider_daily_sums :
              (/\ DOMAIN provider_daily_sums = {id}
               /\ converted_limit_min(id) = 500
               /\ provider_daily_sums[id] = 0) =>
                    /\ limit_penalty_all = 5 * Hundredths
                    /\ limit_penalty_used = 0

\* C9 witness: the batch ends with an unused provider of limitMin 500 and a
\* used provider short of its limitMin
C9_Witness ==
    /\ pc = "done"
    /\ \E id \in DOMAIN provider_daily_sums :
          converted_limit_min(id) = 500 /\ provider_daily_sums[id] = 0
    /\ \E id \in DOMAIN provider_daily_sums :
          provider_daily_sums[id] > 0 /\ shortfall_of(id) > 0

\* C10: the returned penaltyUsed is at most the returned penaltyAll.
C10_UsedAtMostAll == pc = "done" => limit_penalty_used <= limit_penalty_all

\* C10 witness: a used provider is short of its limitMin, and another
\* provider adds to penaltyAll only
C10_Witness ==
    /\ pc = "done"
    /\ limit_penalty_used > 0
    /\ limit_penalty_used < limit_penalty_all

(* --------------------- the batch as a function ------------------------ *)
\* a second run of the batch over the same tables, fed with a given sequence
\* of draws: st is [sums, route, commission, time, first, successful, feed]
rerun_provider(st, amt, provider) ==
    IF out_of_bounds(amt, provider) \/ limit_reached(st.sums, provider)
    THEN st
    ELSE LET drawn == [st EXCEPT !.feed = Tail(@)]
         IN IF ~Head(st.feed)
            THEN [drawn EXCEPT
                    !.time = failed_time(st.first, @, provider),
                    !.route = Append(@, ToString(provider.ID))]
            ELSE IF limit_overflow(st.sums, amt, provider)
            THEN [drawn EXCEPT !.time = failed_time(st.first, @, provider)]
            ELSE IF st.first
            THEN [drawn EXCEPT
                    !.route = Append(@, ToString(provider.ID)),
                    !.successful = provider.ID,
                    !.sums = committed_sums(@, amt, provider),
                    !.commission = fadd(@, fmul(amt, provider.COMMISSION)),
                    !.time = @ + provider.AVG_TIME,
                    !.first = is_first_after_commit]
            ELSE [drawn EXCEPT !.route = Append(@, ToString(provider.ID))]

RECURSIVE rerun_route(_, _, _)
rerun_route(st, amt, ranked) ==
    IF ranked = <<>> THEN st
    ELSE rerun_route(rerun_provider(st, amt, Head(ranked)), amt, Tail(ranked))

\* the tracker, the result columns and the unread draws after the first n
\* payments
RECURSIVE rerun_batch(_, _)
rerun_batch(n, feed) ==
    IF n = 0
    THEN [sums |-> [id \in DOMAIN provider_daily_sums |-> 0],
          rows |-> <<>>, feed |-> feed]
    ELSE LET before == rerun_batch(n - 1, feed)
             pay == payments[n]
             amt == fmul(pay.amount, pay.rate)
             ranked == CHOOSE l \in ranked_lists(providers, pay.eventTimeRes,
                                                 pay.cur) : TRUE
             st == rerun_route([sums |-> before.sums, route |-> <<>>,
                                commission |-> 0, time |-> 0, first |-> TRUE,
                                successful |-> NoProvider,
                                feed |-> before.feed], amt, ranked)
             flow == join(st.route)
         IN [sums |-> st.sums,
             rows |-> Append(before.rows,
                        [flow |-> flow,
                         Profit |-> IF profit_recorded(flow)
                                    THEN profit(amt, st.commission) ELSE 0,
                         Processing_Time |-> st.time,
                         Successful_provider |-> st.successful]),
             feed |-> st.feed]

column(c) == {sorted_providers[r][criterions[c]] : r \in 1..Len(sorted_providers)}
best(c) == IF marks[c] = "max" THEN SetMax(column(c)) ELSE SetMin(column(c))
worst(c) == IF marks[c] = "max" THEN SetMin(column(c)) ELSE SetMax(column(c))

matches_ideal(row) == \A c \in 1..Len(criterions) : row[criterions[c]] = best(c)
matches_anti_ideal(row) == \A c \in 1..Len(criterions) : row[criterions[c]] = worst(c)

\* a score sqrt(bad2) / (sqrt(good2) + sqrt(bad2)) is a number of [0,1] when
\* it is not NaN and both squared distances are >= 0; it is 1 when only
\* good2 is 0 and 0 when only bad2 is 0
score_in_unit_interval(sc) == ~sc.nan /\ sc.good2 >= 0 /\ sc.bad2 >= 0
score_is_one(sc) == ~sc.nan /\ sc.good2 = 0 /\ sc.bad2 > 0
score_is_zero(sc) == ~sc.nan /\ sc.bad2 = 0 /\ sc.good2 > 0

descending ==
    \A r \in 1..(Len(sorted_providers) - 1) :
        ~ScoreLess(sorted_providers[r].topsis_score,
                   sorted_providers[r + 1].topsis_score)

\* C12 (as claimed): the score of every ranked provider lies in [0,1], a
\* provider that equals the ideal on every criterion scores 1, one that
\* equals the anti-ideal on every criterion scores 0, and the providers come
\* in descending order of score.
C12_ScoresInUnitInterval ==
    routing =>
        /\ \A r \in 1..Len(sorted_providers) :
              LET row == sorted_providers[r]
              IN /\ score_in_unit_interval(row.topsis_score)
                 /\ matches_ideal(row) => score_is_one(row.topsis_score)
                 /\ matches_anti_ideal(row) => score_is_zero(row.topsis_score)
        /\ descending

(* ------------------------------ attempts ------------------------------ *)
\* the provider at hand, and the step that draws for it
at_hand == sorted_providers[k]
draws_true == draws' = Append(draws, TRUE)
draws_false == draws' = Append(draws, FALSE)
drawn == draws_true \/ draws_false
name(provider) == ToString(provider.ID)

\* dailyMax - accumulated is less than the amount
capacity_short(provider) ==
    flt(fsub(provider.LIMIT_MAX, provider_daily_sums[provider.ID]), amount)

\* C13 (as claimed): when the draw of a provider succeeds and its capacity is
\* less than the amount, the provider is appended to the route, its average
\* time is added only if nothing has committed yet, and routing goes on to
\* the next provider.
C13_CapacityStep ==
    (/\ at_provider
     /\ draws_true
     /\ capacity_short(at_hand)) =>
        /\ route' = Append(route, name(at_hand))
        /\ total_processing_time' =
              IF is_first THEN total_processing_time + at_hand.AVG_TIME
              ELSE total_processing_time
        /\ pc' = "route"
        /\ k' = k + 1
C13_CapacityFailureRecorded == [][C13_CapacityStep]_vars

\* C14 (as claimed): after the first commit of a payment every later provider
\* of the ranked list is still checked and, when it passes the checks, drawn
\* and appended to the route, and none of these steps changes the commission,
\* the processing time, the successful provider or the tracker.
C14_AfterCommitStep ==
    (at_provider /\ ~is_first) =>
        /\ pc' = "route"
        /\ k' = k + 1
        /\ drawn <=> attempted(at_hand)
        /\ route' = IF drawn THEN Append(route, name(at_hand)) ELSE route
        /\ total_commission' = total_commission
        /\ total_processing_time' = total_processing_time
        /\ payments'[i].Successful_provider = successful(i)
        /\ provider_daily_sums' = provider_daily_sums
C14_RoutingGoesOnAfterCommit == [][C14_AfterCommitStep]_vars

\* C15: a provider whose bounds exclude the amount, or whose accumulated
\* daily amount is already at or above its daily max, is passed over without
\* a trace: nothing is appended to the route, no time is added, no draw is
\* made, and the tracker and the payment table stay as they are.
C15_SkipStep ==
    (/\ at_provider
     /\ \/ flt(amount, at_hand.MIN_SUM)
        \/ fgt(amount, at_hand.MAX_SUM)
        \/ fge(provider_daily_sums[at_hand.ID], at_hand.LIMIT_MAX)) =>
        /\ route' = route
        /\ total_processing_time' = total_processing_time
        /\ total_commission' = total_commission
        /\ draws' = draws
        /\ provider_daily_sums' = provider_daily_sums
        /\ payments' = payments
        /\ is_first' = is_first
        /\ k' = k + 1
C15_SkippedWithoutTrace == [][C15_SkipStep]_vars

\* C15 witness: a payment of 50 has passed over a provider with daily max 100
\* at accumulated 100 and a provider whose MIN_SUM is above 50
C15_Witness ==
    /\ routing
    /\ k = 3
    /\ amount = 50
    /\ route = <<>>
    /\ total_processing_time = 0
    /\ \E a, b \in 1..2 :
          /\ sorted_providers[a].LIMIT_MAX = 100
          /\ provider_daily_sums[sorted_providers[a].ID] = 100
          /\ sorted_providers[a].MIN_SUM <= 50
          /\ sorted_providers[b].MIN_SUM > 50

\* C16: while a payment is routed, the average time of the provider at hand
\* is added to the processing time in exactly the steps that draw for it
\* before any commit of the payment (a failed draw, a refused commit, the
\* commit itself); once a provider has committed, the processing time and
\* the committed mark stay as they are for the rest of the ranked list.
C16_TimeStep ==
    routing =>
        /\ total_processing_time' =
              IF at_provider /\ drawn /\ is_first
              THEN total_processing_time + at_hand.AVG_TIME
              ELSE total_processing_time
        /\ ~is_first => ~is_first'
C16_TimeUntilCommit == [][C16_TimeStep]_vars

\* C16 witness: the first provider committed and the draw of the second one
\* failed afterwards; only the time of the first one was counted
C16_Witness ==
    /\ routing
    /\ k = 3
    /\ ~is_first
    /\ successful(i) = sorted_providers[1].ID
    /\ ~draws[Len(draws)]
    /\ route = <<name(sorted_providers[1]), name(sorted_providers[2])>>
    /\ sorted_providers[2].AVG_TIME > 0
    /\ total_processing_time = sorted_providers[1].AVG_TIME

(* ----------------------------- eligibility ---------------------------- *)
\* rows of the provider table with the currency of the payment being routed
same_currency == {r \in 1..Len(providers) : providers[r].CURRENCY = payments[i].cur}
payment_time == payments[i].eventTimeRes

\* the row of the provider table a ranked row was taken from
is_row(ranked, r) ==
    \A f \in DOMAIN providers[r] : ranked[f] = providers[r][f]

\* C17 (as claimed): the record routed for a provider is the latest of all
\* its records of the payment's currency, so that a provider whose latest
\* record postdates the payment is not routed at all.
C17_LatestOfAllRecords ==
    routing =>
        \A n \in 1..Len(sorted_providers) :
            \A r \in same_currency :
                providers[r].ID = sorted_providers[n].ID =>
                    providers[r].TIME <= sorted_providers[n].TIME

\* C17 (amended): the ranked list holds one record for every provider that
\* has a record of the payment's currency with timestamp <= T and for no
\* other provider; it is the first record in table order among those of the
\* provider with the greatest timestamp <= T, whatever later records exist.
\* The list is empty (and the ranking raises) only when no record of the
\* currency has a timestamp <= T.
C17_LatestUpToPaymentTime ==
    (routing \/ pc = "raised") =>
        LET upto == {r \in same_currency : providers[r].TIME <= payment_time}
            latest(r) ==
                /\ r \in upto
                /\ \A q \in upto :
                      providers[q].ID = providers[r].ID =>
                          \/ providers[q].TIME < providers[r].TIME
                          \/ providers[q].TIME = providers[r].TIME /\ r <= q
        IN IF pc = "raised" THEN upto = {}
           ELSE /\ \A n \in 1..Len(sorted_providers) :
                      \E r \in upto : latest(r) /\ is_row(sorted_providers[n], r)
                /\ \A r \in upto :
                      \E n \in 1..Len(sorted_providers) :
                         sorted_providers[n].ID = providers[r].ID
                /\ \A n, m \in 1..Len(sorted_providers) :
                      sorted_providers[n].ID = sorted_providers[m].ID => n = m

\* C17 witness: a provider is routed through its record of time <= T while
\* it has a later record of the same currency
C17_Witness ==
    /\ routing
    /\ \E n \in 1..Len(sorted_providers) :
          \E r \in same_currency :
             /\ providers[r].ID = sorted_providers[n].ID
             /\ providers[r].TIME > payment_time
             /\ sorted_providers[n].TIME <= payment_time

(* ------------------------------ the batch ----------------------------- *)
\* C18: payments are taken one at a time in input order against the one
\* tracker, and a provider whose accumulated amount has reached its daily
\* max stays there: from then on no step appends it to a route, commits a
\* payment to it or changes its entry.
C18_Step ==
    /\ i' = i \/ (i' = i + 1 /\ routing /\ k > Len(sorted_providers))
    /\ \A id \in DOMAIN provider_daily_sums :
          fge(provider_daily_sums[id], daily_max(id)) =>
              /\ provider_daily_sums'[id] = provider_daily_sums[id]
              /\ Len(route') > Len(route) => route'[Len(route')] # ToString(id)
              /\ \A j \in 1..Len(payments) :
                    payments'[j].Successful_provider = id => successful(j) = id
C18_ExhaustedProviderStaysOut == [][C18_Step]_vars

\* C18 witness: the first payment took a provider to its daily max and the
\* second payment, with that provider in its ranked list, went through the
\* list without it
C18_Witness ==
    /\ routing
    /\ i = 2
    /\ k > Len(sorted_providers)
    /\ successful(1) # NoProvider
    /\ provider_daily_sums[successful(1)] = daily_max(successful(1))
    /\ \E n \in 1..Len(sorted_providers) : sorted_providers[n].ID = successful(1)
    /\ \A n \in 1..Len(route) : route[n] # ToString(successful(1))

\* the names of the first n ranked providers, in ranked order
visited(ranked, n) == [m \in 1..n |-> name(ranked[m])]

no_duplicates(q) == \A a, b \in 1..Len(q) : q[a] = q[b] => a = b

\* rt is what is left of q when the names outside rt are struck out
subsequence_of(rt, q) ==
    rt = SelectSeq(q, LAMBDA x : \E n \in 1..Len(rt) : rt[n] = x)

\* C19: routing visits the ranked providers one after the other, each once,
\* and ends when the list is exhausted; no provider is ranked twice, and at
\* every point the route is a subsequence without duplicates of the names of
\* the providers visited so far, in ranked order; the flow written at the
\* end is that route.
C19_Step ==
    /\ routing =>
          IF k <= Len(sorted_providers)
          THEN /\ pc' = "route"
               /\ k' = k + 1
               /\ sorted_providers' = sorted_providers
          ELSE /\ k = Len(sorted_providers) + 1
               /\ pc' = "payment"
               /\ payments'[i].flow = join(route)
               /\ i' = i + 1
    /\ (pc' = "route") =>
          /\ k' <= Len(sorted_providers') + 1
          /\ no_duplicates(visited(sorted_providers', Len(sorted_providers')))
          /\ no_duplicates(route')
          /\ subsequence_of(route', visited(sorted_providers', k' - 1))
C19_EachProviderOnce == [][C19_Step]_vars

\* C19 witness: a list of two providers is exhausted and only the second one
\* is in the route
C19_Witness ==
    /\ routing
    /\ Len(sorted_providers) = 2
    /\ k = 3
    /\ route = <<name(sorted_providers[2])>>

\* float sum: NaN absorbs it
RECURSIVE fsum(_)
fsum(f) ==
    IF DOMAIN f = {} THEN 0
    ELSE LET x == CHOOSE y \in DOMAIN f : TRUE
         IN fadd(f[x], fsum([y \in DOMAIN f \ {x} |-> f[y]]))

\* the flows that name provider id: the joined duplicate-free sequences of
\* provider names with the name of id among them
flows_with(id) ==
    LET names == {ToString(d) : d \in DOMAIN provider_daily_sums}
        routes == UNION {[1..m -> names] : m \in 1..Cardinality(names)}
    IN {join(q) : q \in {rt \in routes :
                            /\ no_duplicates(rt)
                            /\ \E n \in 1..Len(rt) : rt[n] = ToString(id)}}

\* the record payment j was committed to
committed_record(j) ==
    LET rows == eligible(j)
    IN rows[CHOOSE r \in 1..Len(rows) : rows[r].ID = successful(j)]

\* C20 (as claimed): between two payments and at the end of the batch, the
\* sum of the tracker entries equals the sum of the converted amounts of the
\* processed payments that have a successful provider, and every such
\* payment has its successful provider in its flow and an amount inside the
\* [MIN_SUM, MAX_SUM] of that provider.
C20_CommittedAmountsConserved ==
    pc \in {"payment", "done"} =>
        LET committed == {j \in 1..(i - 1) : successful(j) # NoProvider}
        IN /\ fsum(provider_daily_sums) =
                 fsum([j \in committed |-> converted_amount(j)])
           /\ \A j \in committed :
                 /\ payments[j].flow \in flows_with(successful(j))
                 /\ fge(converted_amount(j), committed_record(j).MIN_SUM)
                 /\ fge(committed_record(j).MAX_SUM, converted_amount(j))

=============================================================================
